---- MODULE Spec2Model ----
(***************************************************************************)
(* Model of the meal planner in planner_jidelnicku_final.py: FoodItem,     *)
(* MealPlan, MealPlanBuilder, MealOptimizer (knapsack_optimize,            *)
(* distribute_to_slots) and find_optimal_plan.                             *)
(*                                                                         *)
(* Conventions.                                                            *)
(*  - A Python dict is a sequence of entries [key, val] with distinct keys *)
(*    in insertion order (iteration order is observable in the code).      *)
(*  - An Optional number is a set: {} is None and {v} is the value v.      *)
(*  - A (min, max) tuple is a record [min, max].                           *)
(*  - Nutrient values are integers; calories are counted in units of       *)
(*    100 kcal in the planner's catalog (2000 kcal is 20).                 *)
(*  - An exception is a record [type, what, name]; NoExc is "nothing       *)
(*    raised".                                                             *)
(***************************************************************************)
EXTENDS Integers, Sequences, FiniteSets, TLC

VARIABLES
    foods,          \* the catalog / the food list passed to the operation
    targets,        \* dict nutrient -> Optional number
    limits,         \* dict nutrient -> (Optional min, Optional max)
    weights,        \* dict nutrient -> number
    slot_caps,      \* dict slot -> (min_count, max_count)
    pc,             \* position of the running operation
    builder,        \* the MealPlanBuilder object
    result,         \* what the last operation returned
    exc,            \* the exception the last operation raised (NoExc if none)
    max_items,      \* knapsack_optimize: the item cap
    item_scores,    \* knapsack_optimize: (score, food) pairs after the sort
    idx,            \* index of the next element of the running loop
    selected,       \* knapsack_optimize: selected; find_optimal_plan: all_selected
    current_totals, \* knapsack_optimize: running totals; MealPlan.totals(): its value
    slot_foods,     \* find_optimal_plan: dict slot -> eligible foods
    distribution,   \* distribute_to_slots: dict slot -> assigned foods
    call,           \* find_optimal_plan: number of the running call
    prev_result,    \* find_optimal_plan: what the previous call returned
    csv_file,       \* load_foods: the source (a missing file, or a header and rows)
    predicates,     \* filter_items: the predicates passed to it
    heap            \* the list and dict objects of the run, by object identity

vars == <<foods, targets, limits, weights, slot_caps, pc, builder, result, exc,
          max_items, item_scores, idx, selected, current_totals, slot_foods,
          distribution, call, prev_result, csv_file, predicates, heap>>

----------------------------------------------------------------------------
(* Bounds of the model *)

MaxCatalog == 2     \* longest catalog handed to find_optimal_plan
MaxSlotItems == 2   \* most items the builder specification adds to one slot
MaxCap == 2         \* largest slot capacity the builder / allocator inputs use
MaxPlanLen == 2     \* longest slot list of a directly constructed MealPlan
MaxKnapFoods == 3   \* longest food list handed to knapsack_optimize directly
MaxItems == 2       \* largest max_items handed to knapsack_optimize directly
MaxDistFoods == 2   \* longest food list handed to distribute_to_slots directly
MaxRows == 3        \* most data rows of a source handed to load_foods
MaxFilterItems == 3 \* longest list handed to filter_items directly
MaxPredicates == 2  \* most predicates handed to filter_items directly
MaxBuilds == 1      \* most plans one builder object is asked to create

----------------------------------------------------------------------------
(* Python values *)

None == {}
Some(v) == {v}

NoExc == [type |-> "none", what |-> "", name |-> ""]
ValueError(what, name) == [type |-> "ValueError", what |-> what, name |-> name]
KeyError(name) == [type |-> "KeyError", what |-> "key", name |-> name]
TypeError(name) == [type |-> "TypeError", what |-> "NoneType", name |-> name]
AttributeError(name) == [type |-> "AttributeError", what |-> "strip", name |-> name]
FileNotFoundError == [type |-> "FileNotFoundError", what |-> "open", name |-> ""]

(* dict helpers *)
Entry(k, v) == [key |-> k, val |-> v]
DictKeys(d) == {d[i].key : i \in DOMAIN d}
DictHas(d, k) == k \in DictKeys(d)
DictGet(d, k) == d[CHOOSE i \in DOMAIN d : d[i].key = k].val
DictSet(d, k, v) ==
    IF DictHas(d, k)
    THEN [i \in DOMAIN d |-> IF d[i].key = k THEN Entry(k, v) ELSE d[i]]
    ELSE Append(d, Entry(k, v))

Cap(lo, hi) == [min |-> lo, max |-> hi]

----------------------------------------------------------------------------
(* FoodItem *)

AllMealTimes == {"breakfast", "lunch", "dinner", "snack"}

FoodItem(name, calories, protein, fat, carbs, meal_times, tags) ==
    [name |-> name, calories |-> calories, protein |-> protein, fat |-> fat,
     carbs |-> carbs, meal_times |-> meal_times, tags |-> tags]

get_nutrient_value(item, nutrient) ==
    CASE nutrient = "calories" -> item.calories
      [] nutrient = "protein" -> item.protein
      [] nutrient = "fat" -> item.fat
      [] nutrient = "carbs" -> item.carbs
      [] OTHER -> 0

(* The catalog the planner is exercised with. *)
Oats  == FoodItem("oats", 5, 1, 1, 3, AllMealTimes, {})
Toast == FoodItem("toast", 3, 1, 0, 2, {"breakfast", "lunch"}, {})
Ham   == FoodItem("ham", 6, 3, 2, 0, {"breakfast", "lunch"}, {"meat"})
Bacon == FoodItem("bacon", 2, 2, 3, 0, {"breakfast", "snack"}, {"meat"})
Rice  == FoodItem("rice", 10, 1, 0, 4, {"lunch", "dinner"}, {})
Apple == FoodItem("apple", 1, 0, 0, 1, {"snack"}, {})

FoodUniverse == {Oats, Toast, Ham, Bacon, Rice, Apple}

SeqsUpTo(S, n) == UNION {[1..k -> S] : k \in 0..n}

----------------------------------------------------------------------------
(* MealPlan *)

MealPlan(breakfast, lunch, dinner, snacks) ==
    [breakfast |-> breakfast, lunch |-> lunch, dinner |-> dinner, snacks |-> snacks]

(* An all_items that leaves the snacks out. *)
AllItemsNoSnacks(plan) == plan.breakfast \o plan.lunch \o plan.dinner

all_items(plan) == plan.breakfast \o plan.lunch \o plan.dinner \o plan.snacks

RECURSIVE SumNutrient(_, _)
SumNutrient(items, nutrient) ==
    IF items = <<>> THEN 0
    ELSE get_nutrient_value(Head(items), nutrient) + SumNutrient(Tail(items), nutrient)

totals(plan) ==
    LET items == all_items(plan)
    IN  [calories |-> SumNutrient(items, "calories"),
         protein  |-> SumNutrient(items, "protein"),
         fat      |-> SumNutrient(items, "fat"),
         carbs    |-> SumNutrient(items, "carbs")]

(* totals.get(metric, 0.0) *)
TotalsGet(t, metric) ==
    CASE metric = "calories" -> t.calories
      [] metric = "protein" -> t.protein
      [] metric = "fat" -> t.fat
      [] metric = "carbs" -> t.carbs
      [] OTHER -> 0

----------------------------------------------------------------------------
(* MealPlanBuilder *)

DefaultSlotCaps ==
    << Entry("breakfast", Cap(1, 2)), Entry("lunch", Cap(1, 3)),
       Entry("dinner", Cap(1, 3)), Entry("snack", Cap(0, 2)) >>

(* A constructor that hands out the builder object of the previous call. *)
StaleBuilder == builder

MealPlanBuilder_init ==
    [breakfast |-> <<>>, lunch |-> <<>>, dinner |-> <<>>, snacks |-> <<>>,
     slot_caps |-> DefaultSlotCaps]

set_slot_limits(b, slot, min_n, max_n) ==
    [b EXCEPT !.slot_caps = DictSet(b.slot_caps, slot, Cap(min_n, max_n))]

(* An add_to_slot without the eligibility test. *)
AddToSlotUnchecked(b, slot, item) ==
    [exc |-> NoExc,
     builder |->
        CASE slot = "breakfast" -> [b EXCEPT !.breakfast = Append(@, item)]
          [] slot = "lunch" -> [b EXCEPT !.lunch = Append(@, item)]
          [] slot = "dinner" -> [b EXCEPT !.dinner = Append(@, item)]
          [] slot = "snack" -> [b EXCEPT !.snacks = Append(@, item)]
          [] OTHER -> b]

(* add_to_slot: [exc, builder]; the builder is unchanged when it raises, and *)
(* also when the slot name is none of the four (no branch appends).          *)
add_to_slot(b, slot, item) ==
    IF slot \notin item.meal_times
    THEN [exc |-> ValueError("not_suitable", slot), builder |-> b]
    ELSE [exc |-> NoExc,
          builder |->
            CASE slot = "breakfast" -> [b EXCEPT !.breakfast = Append(@, item)]
              [] slot = "lunch" -> [b EXCEPT !.lunch = Append(@, item)]
              [] slot = "dinner" -> [b EXCEPT !.dinner = Append(@, item)]
              [] slot = "snack" -> [b EXCEPT !.snacks = Append(@, item)]
              [] OTHER -> b]

_get_slot_items(b, slot) ==
    CASE slot = "breakfast" -> b.breakfast
      [] slot = "lunch" -> b.lunch
      [] slot = "dinner" -> b.dinner
      [] slot = "snack" -> b.snacks
      [] OTHER -> <<>>

(* A build whose slot loop forgets the lower bound. *)
RECURSIVE CheckSlotCountsNoMin(_, _)
CheckSlotCountsNoMin(b, caps) ==
    IF caps = <<>> THEN NoExc
    ELSE IF Len(_get_slot_items(b, Head(caps).key)) > Head(caps).val.max
         THEN ValueError("too_many", Head(caps).key)
         ELSE CheckSlotCountsNoMin(b, Tail(caps))

(* A build whose slot loop forgets the upper bound. *)
RECURSIVE CheckSlotCountsNoMax(_, _)
CheckSlotCountsNoMax(b, caps) ==
    IF caps = <<>> THEN NoExc
    ELSE IF Len(_get_slot_items(b, Head(caps).key)) < Head(caps).val.min
         THEN ValueError("too_few", Head(caps).key)
         ELSE CheckSlotCountsNoMax(b, Tail(caps))

(* The slot-count validation loop of build: the first violation in the      *)
(* iteration order of _slot_caps, NoExc if there is none.                   *)
RECURSIVE CheckSlotCounts(_, _)
CheckSlotCounts(b, caps) ==
    IF caps = <<>> THEN NoExc
    ELSE LET slot == Head(caps).key
             n == Len(_get_slot_items(b, slot))
         IN  IF n < Head(caps).val.min THEN ValueError("too_few", slot)
             ELSE IF n > Head(caps).val.max THEN ValueError("too_many", slot)
             ELSE CheckSlotCounts(b, Tail(caps))

(* A limit validation that tests the minimum alone. *)
RECURSIVE CheckLimitsMinOnly(_, _)
CheckLimitsMinOnly(t, lims) ==
    IF lims = <<>> THEN NoExc
    ELSE IF \E m \in Head(lims).val.min : TotalsGet(t, Head(lims).key) < m
         THEN ValueError("below_min", Head(lims).key)
         ELSE CheckLimitsMinOnly(t, Tail(lims))

(* The limit validation loop of build over limits.items(). *)
RECURSIVE CheckLimits(_, _)
CheckLimits(t, lims) ==
    IF lims = <<>> THEN NoExc
    ELSE LET metric == Head(lims).key
             val == TotalsGet(t, metric)
         IN  IF \E m \in Head(lims).val.min : val < m
             THEN ValueError("below_min", metric)
             ELSE IF \E m \in Head(lims).val.max : val > m
             THEN ValueError("above_max", metric)
             ELSE CheckLimits(t, Tail(lims))

NoPlan == MealPlan(<<>>, <<>>, <<>>, <<>>)

(* build(targets, limits): [exc, plan]. A missing argument (None) and an    *)
(* empty dict are both falsy: both are the empty sequence here.             *)
build(b, tgts, lims) ==
    LET slotExc == CheckSlotCounts(b, b.slot_caps)
        plan == MealPlan(b.breakfast, b.lunch, b.dinner, b.snacks)
        limExc == IF (tgts # <<>> \/ lims # <<>>) /\ lims # <<>>
                  THEN CheckLimits(totals(plan), lims)
                  ELSE NoExc
    IN  IF slotExc # NoExc THEN [exc |-> slotExc, plan |-> NoPlan]
        ELSE IF limExc # NoExc THEN [exc |-> limExc, plan |-> NoPlan]
        ELSE [exc |-> NoExc, plan |-> plan]

(* What an operation hands back. *)
Returned(kind, plan) == [kind |-> kind, plan |-> plan]
NoResult == Returned("pending", NoPlan)

ZeroTotals == [calories |-> 0, protein |-> 0, fat |-> 0, carbs |-> 0]

(* No source is open and no object is allocated. *)
NoFile == [exists |-> FALSE, header |-> {}, rows |-> <<>>]
NoObjects == <<>>
Unused == csv_file = NoFile /\ predicates = <<>> /\ heap = NoObjects

(* The variables an operation does not use keep these values. *)
locals == <<max_items, item_scores, idx, selected, current_totals, slot_foods,
            distribution, call, prev_result, csv_file, predicates, heap>>

Idle ==
    /\ max_items = 0
    /\ item_scores = <<>>
    /\ idx = 0
    /\ selected = <<>>
    /\ current_totals = ZeroTotals
    /\ slot_foods = <<>>
    /\ distribution = <<>>
    /\ call = 0
    /\ prev_result = NoResult
    /\ csv_file = NoFile
    /\ predicates = <<>>
    /\ heap = NoObjects

----------------------------------------------------------------------------
(* Functional filters *)

by_meal_time(meal_time) == [kind |-> "by_meal_time", name |-> meal_time, value |-> 0]
by_tag(tag) == [kind |-> "by_tag", name |-> tag, value |-> 0]
not_tag(tag) == [kind |-> "not_tag", name |-> tag, value |-> 0]
max_nutrient(nutrient, value) == [kind |-> "max_nutrient", name |-> nutrient, value |-> value]
min_nutrient(nutrient, value) == [kind |-> "min_nutrient", name |-> nutrient, value |-> value]

(* compose_predicates: a predicate that holds its component predicates *)
compose_predicates(preds) == [kind |-> "composed", name |-> "", value |-> 0, parts |-> preds]

(* Calling a predicate on an item. *)
RECURSIVE PredicateHolds(_, _)
PredicateHolds(p, item) ==
    CASE p.kind = "by_meal_time" -> p.name \in item.meal_times
      [] p.kind = "by_tag" -> p.name \in item.tags
      [] p.kind = "not_tag" -> p.name \notin item.tags
      [] p.kind = "max_nutrient" -> get_nutrient_value(item, p.name) <= p.value
      [] p.kind = "min_nutrient" -> get_nutrient_value(item, p.name) >= p.value
      [] p.kind = "composed" -> \A i \in DOMAIN p.parts : PredicateHolds(p.parts[i], item)

(* A filter that keeps an item as soon as one predicate holds. *)
FilterAny(items, preds) ==
    LET ok(item) == \E i \in DOMAIN preds : PredicateHolds(preds[i], item)
    IN  SelectSeq(items, ok)

filter_items(items, preds) ==
    LET ok(item) == \A i \in DOMAIN preds : PredicateHolds(preds[i], item)
    IN  SelectSeq(items, ok)

(* Objects.  The heap is the sequence of the list and dict objects created  *)
(* so far; an object's identity is its position, and a reference is that    *)
(* position.  list(xs) and list(filter(...)) create a new object; append    *)
(* and item assignment change the object they are called on.                *)
NewRef(h) == Len(h) + 1
Alloc(h, v) == Append(h, v)

(* A filter that removes the rejected items from the list it is handed. *)
FilterInPlace(h, a, preds) ==
    [heap |-> [h EXCEPT ![a] = filter_items(@, preds)], ref |-> a]

(* filter_items on the list object at reference a: [heap, ref] *)
filter_items_obj(h, a, preds) ==
    [heap |-> Alloc(h, filter_items(h[a], preds)), ref |-> NewRef(h)]

----------------------------------------------------------------------------
(* MealPlanBuilder and MealPlan as objects.  A builder object holds         *)
(* references to its four lists and to its _slot_caps dict; a plan object   *)
(* holds references to its four lists.                                      *)

(* MealPlanBuilder(): five new objects: [heap, builder] *)
MealPlanBuilder_obj(h) ==
    [heap |-> h \o << MealPlanBuilder_init.breakfast, MealPlanBuilder_init.lunch,
                      MealPlanBuilder_init.dinner, MealPlanBuilder_init.snacks,
                      MealPlanBuilder_init.slot_caps >>,
     builder |-> [breakfast |-> Len(h) + 1, lunch |-> Len(h) + 2, dinner |-> Len(h) + 3,
                  snacks |-> Len(h) + 4, slot_caps |-> Len(h) + 5]]

(* the contents of the builder object b *)
BuilderValue(h, b) ==
    [breakfast |-> h[b.breakfast], lunch |-> h[b.lunch], dinner |-> h[b.dinner],
     snacks |-> h[b.snacks], slot_caps |-> h[b.slot_caps]]

(* the contents of the plan object p *)
PlanValue(h, p) == MealPlan(h[p.breakfast], h[p.lunch], h[p.dinner], h[p.snacks])

(* the heap after the builder object b is changed in place to the contents v *)
StoreBuilder(h, b, v) ==
    [a \in DOMAIN h |->
        CASE a = b.breakfast -> v.breakfast
          [] a = b.lunch -> v.lunch
          [] a = b.dinner -> v.dinner
          [] a = b.snacks -> v.snacks
          [] a = b.slot_caps -> v.slot_caps
          [] OTHER -> h[a]]

(* self._slot_caps[slot] = (min_items, max_items) *)
set_slot_limits_obj(h, b, slot, min_n, max_n) ==
    StoreBuilder(h, b, set_slot_limits(BuilderValue(h, b), slot, min_n, max_n))

(* add_to_slot on the builder object: self._<slot>.append(item): [exc, heap] *)
add_to_slot_obj(h, b, slot, item) ==
    LET r == add_to_slot(BuilderValue(h, b), slot, item)
    IN  [exc |-> r.exc, heap |-> StoreBuilder(h, b, r.builder)]

(* A plan constructor that is handed the builder's own list. *)
ShareList(h, a) == [heap |-> h, ref |-> a]

(* list(xs): a new list object with the items of the object at a: [heap, ref] *)
CopyList(h, a) == [heap |-> Alloc(h, h[a]), ref |-> NewRef(h)]

(* build on the builder object: [exc, heap, plan].  The plan object is       *)
(* created after the slot counts are validated and before the limits are.    *)
build_obj(h, b, tgts, lims) ==
    LET r == build(BuilderValue(h, b), tgts, lims)
        slotExc == CheckSlotCounts(BuilderValue(h, b), h[b.slot_caps])
        c1 == CopyList(h, b.breakfast)
        c2 == CopyList(c1.heap, b.lunch)
        c3 == CopyList(c2.heap, b.dinner)
        c4 == CopyList(c3.heap, b.snacks)
    IN  [exc |-> r.exc,
         heap |-> IF slotExc # NoExc THEN h ELSE c4.heap,
         plan |-> MealPlan(c1.ref, c2.ref, c3.ref, c4.ref)]

----------------------------------------------------------------------------
(* MealOptimizer.knapsack_optimize *)

nutrients == <<"calories", "protein", "fat", "carbs">>
NutrientSet == {nutrients[i] : i \in DOMAIN nutrients}

(* Target values reach knapsack_optimize as daily target times a slot share *)
(* of 0.25, 0.35, 0.30 or 0.10.  They are kept exact as integers counted in *)
(* twentieths: a target of t is the integer t * TargetUnit.                 *)
TargetUnit == 20

Abs(x) == IF x < 0 THEN -x ELSE x
Max2(a, b) == IF a >= b THEN a ELSE b

(* The nutrients that are scored: in targets with a value > 0. *)
Scored(tgts) == {n \in NutrientSet : DictHas(tgts, n) /\ DictGet(tgts, n) > 0}

(* max(target_val, 1), in twentieths *)
Denominator(tgts, n) == Max2(DictGet(tgts, n), TargetUnit)

(* weights.get(nutrient, 1.0) *)
WeightOf(wts, n) == IF DictHas(wts, n) THEN DictGet(wts, n) ELSE 1

(* contribution of one nutrient, times Denominator: with                    *)
(* ratio = v / Denominator, -weight*(ratio-1) if ratio > 1.5, and           *)
(* weight*(1-|1-ratio|) otherwise.                                          *)
Contribution(item, tgts, wts, n) ==
    LET v == TargetUnit * get_nutrient_value(item, n)
        d == Denominator(tgts, n)
        w == WeightOf(wts, n)
    IN  IF 2 * v > 3 * d
        THEN -(w * (v - d))
        ELSE w * (d - Abs(d - v))

RECURSIVE ProductOfDenominators(_, _)
ProductOfDenominators(tgts, S) ==
    IF S = {} THEN 1
    ELSE LET n == CHOOSE x \in S : TRUE
         IN  Denominator(tgts, n) * ProductOfDenominators(tgts, S \ {n})

RECURSIVE SumOfContributions(_, _, _, _, _)
SumOfContributions(item, tgts, wts, S, all) ==
    IF S = {} THEN 0
    ELSE LET n == CHOOSE x \in S : TRUE
         IN  Contribution(item, tgts, wts, n) * ProductOfDenominators(tgts, all \ {n})
                + SumOfContributions(item, tgts, wts, S \ {n}, all)

(* The score of an item, times the positive constant                        *)
(* len(nutrients) * (product of the scored nutrients' denominators), which  *)
(* is the same for every item of one call: an integer with the order and    *)
(* the ties of the exact score.  The code computes the score in floating    *)
(* point; the catalog and the targets used below are such that the exact    *)
(* order is the order the code computes.                                    *)
Score(item, tgts, wts) == SumOfContributions(item, tgts, wts, Scored(tgts), Scored(tgts))

(* item_scores after item_scores.sort(reverse=True, key=score): descending  *)
(* by score, equal scores in their input order (the sort is stable).        *)
RECURSIVE SortedFrom(_, _)
SortedFrom(scored, left) ==
    IF left = {} THEN <<>>
    ELSE LET i == CHOOSE x \in left : \A y \in left :
                        \/ scored[x].score > scored[y].score
                        \/ scored[x].score = scored[y].score /\ x <= y
         IN  <<scored[i]>> \o SortedFrom(scored, left \ {i})

ScoreAndSort(fs, tgts, wts) ==
    LET scored == [i \in DOMAIN fs |-> [score |-> Score(fs[i], tgts, wts), food |-> fs[i]]]
    IN  SortedFrom(scored, DOMAIN fs)

AddFood(t, food) ==
    [calories |-> t.calories + get_nutrient_value(food, "calories"),
     protein  |-> t.protein + get_nutrient_value(food, "protein"),
     fat      |-> t.fat + get_nutrient_value(food, "fat"),
     carbs    |-> t.carbs + get_nutrient_value(food, "carbs")]

(* The limit check of one candidate, over limits.items(): [exc, ok].        *)
(* temp_totals[nutrient] raises KeyError for a key that is no tracked       *)
(* nutrient; "continue" goes to the next nutrient; "break" ends the check.  *)
RECURSIVE WithinLimits(_, _)
WithinLimits(temp_totals, lims) ==
    IF lims = <<>> THEN [exc |-> NoExc, ok |-> TRUE]
    ELSE LET nutrient == Head(lims).key
             val == TotalsGet(temp_totals, nutrient)
         IN  IF nutrient \notin NutrientSet
             THEN [exc |-> KeyError(nutrient), ok |-> FALSE]
             ELSE IF \E m \in Head(lims).val.min : val < m
             THEN WithinLimits(temp_totals, Tail(lims))
             ELSE IF \E m \in Head(lims).val.max : val > m
             THEN [exc |-> NoExc, ok |-> FALSE]
             ELSE WithinLimits(temp_totals, Tail(lims))

(* One iteration of the selection loop below the item-cap test:             *)
(* [exc, selected, current_totals].                                         *)
SelectStep(sel, cur, food, lims) ==
    LET temp_totals == AddFood(cur, food)
        chk == WithinLimits(temp_totals, lims)
    IN  IF chk.exc # NoExc
        THEN [exc |-> chk.exc, selected |-> sel, current_totals |-> cur]
        ELSE IF chk.ok
        THEN [exc |-> NoExc, selected |-> Append(sel, food), current_totals |-> temp_totals]
        ELSE [exc |-> NoExc, selected |-> sel, current_totals |-> cur]

(* The selection loop from element i of item_scores on. *)
RECURSIVE SelectLoop(_, _, _, _, _, _)
SelectLoop(scores, i, sel, cur, lims, cap) ==
    IF i > Len(scores) \/ Len(sel) >= cap
    THEN [exc |-> NoExc, selected |-> sel]
    ELSE LET r == SelectStep(sel, cur, scores[i].food, lims)
         IN  IF r.exc # NoExc
             THEN [exc |-> r.exc, selected |-> sel]
             ELSE SelectLoop(scores, i + 1, r.selected, r.current_totals, lims, cap)

(* knapsack_optimize(foods, targets, limits, weights, max_items): [exc, selected] *)
knapsack_optimize(fs, tgts, lims, wts, cap) ==
    IF tgts = <<>> \/ fs = <<>>
    THEN [exc |-> NoExc, selected |-> <<>>]
    ELSE SelectLoop(ScoreAndSort(fs, tgts, wts), 1, <<>>, ZeroTotals, lims, cap)

----------------------------------------------------------------------------
(* MealOptimizer.distribute_to_slots *)

SlotOrder == <<"breakfast", "lunch", "dinner", "snack">>

(* distribution = {slot: [] for slot in slot_caps.keys()} *)
EmptyDistribution(caps) == [i \in DOMAIN caps |-> Entry(caps[i].key, <<>>)]

(* 1st pass, from slot number k of the fixed order on: [exc, assigned,      *)
(* distribution].  distribution[slot] raises KeyError when slot_caps has no *)
(* such slot; it is read before the meat rule is applied.                   *)
RECURSIVE NaturalPass(_, _, _, _)
NaturalPass(dist, food, caps, k) ==
    IF k > Len(SlotOrder) THEN [exc |-> NoExc, assigned |-> FALSE, distribution |-> dist]
    ELSE LET slot == SlotOrder[k]
         IN  IF slot \notin food.meal_times
             THEN NaturalPass(dist, food, caps, k + 1)
             ELSE IF ~DictHas(dist, slot)
             THEN [exc |-> KeyError(slot), assigned |-> FALSE, distribution |-> dist]
             ELSE IF slot = "breakfast" /\ "meat" \in food.tags
             THEN NaturalPass(dist, food, caps, k + 1)
             ELSE IF Len(DictGet(dist, slot)) < DictGet(caps, slot).max
             THEN [exc |-> NoExc, assigned |-> TRUE,
                   distribution |-> DictSet(dist, slot, Append(DictGet(dist, slot), food))]
             ELSE NaturalPass(dist, food, caps, k + 1)

(* A 2nd pass that appends to the first slot without looking at its capacity. *)
FallbackPassNoCapacityTest(dist, food, caps, k) ==
    IF ~DictHas(dist, SlotOrder[k])
    THEN [exc |-> KeyError(SlotOrder[k]), distribution |-> dist]
    ELSE [exc |-> NoExc,
          distribution |-> DictSet(dist, SlotOrder[k],
                                   Append(DictGet(dist, SlotOrder[k]), food))]

(* An allocator without the 2nd pass: an unassigned food is dropped. *)
FallbackPassDrops(dist, food, caps, k) == [exc |-> NoExc, distribution |-> dist]

(* 2nd pass: anywhere with free capacity, from slot number k on: [exc, distribution] *)
RECURSIVE FallbackPass(_, _, _, _)
FallbackPass(dist, food, caps, k) ==
    IF k > Len(SlotOrder) THEN [exc |-> NoExc, distribution |-> dist]
    ELSE LET slot == SlotOrder[k]
         IN  IF ~DictHas(dist, slot)
             THEN [exc |-> KeyError(slot), distribution |-> dist]
             ELSE IF Len(DictGet(dist, slot)) < DictGet(caps, slot).max
             THEN [exc |-> NoExc,
                   distribution |-> DictSet(dist, slot, Append(DictGet(dist, slot), food))]
             ELSE FallbackPass(dist, food, caps, k + 1)

(* The body of "for food in foods": [exc, fallback, distribution] *)
PlaceFood(dist, food, caps) ==
    LET p1 == NaturalPass(dist, food, caps, 1)
        p2 == FallbackPass(dist, food, caps, 1)
    IN  IF p1.exc # NoExc
        THEN [exc |-> p1.exc, fallback |-> FALSE, distribution |-> dist]
        ELSE IF p1.assigned
        THEN [exc |-> NoExc, fallback |-> FALSE, distribution |-> p1.distribution]
        ELSE [exc |-> p2.exc, fallback |-> TRUE,
              distribution |-> IF p2.exc = NoExc THEN p2.distribution ELSE dist]

RECURSIVE PlaceAll(_, _, _, _)
PlaceAll(dist, fs, caps, i) ==
    IF i > Len(fs) THEN [exc |-> NoExc, distribution |-> dist]
    ELSE LET r == PlaceFood(dist, fs[i], caps)
         IN  IF r.exc # NoExc THEN [exc |-> r.exc, distribution |-> dist]
             ELSE PlaceAll(r.distribution, fs, caps, i + 1)

(* distribute_to_slots(foods, slot_caps): [exc, distribution] *)
distribute_to_slots(fs, caps) == PlaceAll(EmptyDistribution(caps), fs, caps, 1)

----------------------------------------------------------------------------
(* find_optimal_plan *)

(* slot_distribution: the share of the daily target per slot, in twentieths *)
(* (0.25, 0.35, 0.30, 0.10), in the dict's order.                           *)
slot_distribution ==
    << Entry("breakfast", 5), Entry("lunch", 7), Entry("dinner", 6), Entry("snack", 2) >>

(* slot_foods = {slot: filter_items(foods, by_meal_time(slot)) for slot in slot_caps} *)
SlotFoods(fs, caps) ==
    [i \in DOMAIN caps |-> Entry(caps[i].key, filter_items(fs, <<by_meal_time(caps[i].key)>>))]

(* The objects find_optimal_plan is handed, in the order of its parameters. *)
ArgRef == [foods |-> 1, targets |-> 2, limits |-> 3, weights |-> 4, slot_caps |-> 5]

(* The slot_foods loop on objects, from entry i of slot_caps on, the catalog *)
(* being the object at reference a: [heap, slot_foods]                       *)
RECURSIVE SlotFoodsObj(_, _, _, _, _)
SlotFoodsObj(h, a, caps, i, acc) ==
    IF i > Len(caps) THEN [heap |-> h, slot_foods |-> acc]
    ELSE LET r == filter_items_obj(h, a, <<by_meal_time(caps[i].key)>>)
         IN  SlotFoodsObj(r.heap, a, caps, i + 1,
                          Append(acc, Entry(caps[i].key, r.heap[r.ref])))

(* daily_targets = {k: v for k, v in targets.items() if v is not None} *)
daily_targets(tgts) ==
    LET set == SelectSeq(tgts, LAMBDA e : e.val # None)
    IN  [i \in DOMAIN set |-> Entry(set[i].key, CHOOSE v \in set[i].val : TRUE)]

(* slot_targets[nutrient] = target * percentage, in twentieths *)
SlotTargets(daily, share) == [i \in DOMAIN daily |-> Entry(daily[i].key, daily[i].val * share)]

(* A slice that keeps the whole list. *)
TakeAll(xs, n) == xs

(* xs[:n] for n >= 0 *)
Take(xs, n) == SubSeq(xs, 1, IF n < Len(xs) THEN n ELSE Len(xs))

(* The loop "for slot, percentage in slot_distribution.items()" from entry  *)
(* k on: [exc, selected].  slot_foods[slot] raises KeyError for a slot that *)
(* slot_caps does not define.                                               *)
RECURSIVE OptimizeSlots(_, _, _, _, _, _, _)
OptimizeSlots(sf, daily, lims, wts, caps, k, acc) ==
    IF k > Len(slot_distribution) THEN [exc |-> NoExc, selected |-> acc]
    ELSE LET slot == slot_distribution[k].key
         IN  IF ~DictHas(sf, slot) THEN [exc |-> KeyError(slot), selected |-> acc]
             ELSE IF DictGet(sf, slot) = <<>>
             THEN OptimizeSlots(sf, daily, lims, wts, caps, k + 1, acc)
             ELSE LET r == knapsack_optimize(DictGet(sf, slot),
                                             SlotTargets(daily, slot_distribution[k].val),
                                             lims, wts, DictGet(caps, slot).max)
                  IN  IF r.exc # NoExc THEN [exc |-> r.exc, selected |-> acc]
                      ELSE OptimizeSlots(sf, daily, lims, wts, caps, k + 1,
                                         acc \o Take(r.selected, DictGet(caps, slot).max))

(* An assignment without targets that takes every eligible food of a slot. *)
RECURSIVE SimpleAssignmentUncapped(_, _, _, _)
SimpleAssignmentUncapped(sf, caps, k, acc) ==
    IF k > Len(SlotOrder) THEN [exc |-> NoExc, selected |-> acc]
    ELSE IF ~DictHas(sf, SlotOrder[k]) THEN [exc |-> KeyError(SlotOrder[k]), selected |-> acc]
    ELSE SimpleAssignmentUncapped(sf, caps, k + 1, acc \o DictGet(sf, SlotOrder[k]))

(* The loop of the branch without targets, from slot number k on. *)
RECURSIVE SimpleAssignment(_, _, _, _)
SimpleAssignment(sf, caps, k, acc) ==
    IF k > Len(SlotOrder) THEN [exc |-> NoExc, selected |-> acc]
    ELSE LET slot == SlotOrder[k]
         IN  IF ~DictHas(sf, slot) THEN [exc |-> KeyError(slot), selected |-> acc]
             ELSE IF DictGet(sf, slot) = <<>>
             THEN SimpleAssignment(sf, caps, k + 1, acc)
             ELSE SimpleAssignment(sf, caps, k + 1,
                                   acc \o Take(DictGet(sf, slot), DictGet(caps, slot).max))

(* all_selected: [exc, selected] *)
SelectAll(sf, tgts, lims, wts, caps) ==
    IF daily_targets(tgts) # <<>>
    THEN OptimizeSlots(sf, daily_targets(tgts), lims, wts, caps, 1, <<>>)
    ELSE SimpleAssignment(sf, caps, 1, <<>>)

(* builder = MealPlanBuilder(); set_slot_limits for every entry of slot_caps *)
RECURSIVE SetAllLimits(_, _)
SetAllLimits(b, caps) ==
    IF caps = <<>> THEN b
    ELSE SetAllLimits(set_slot_limits(b, Head(caps).key, Head(caps).val.min,
                                      Head(caps).val.max),
                      Tail(caps))

NewConfiguredBuilder(caps) == SetAllLimits(MealPlanBuilder_init, caps)

(* "for food in items: builder.add_<slot>(food)": [exc, builder] *)
RECURSIVE AddEach(_, _, _)
AddEach(b, slot, items) ==
    IF items = <<>> THEN [exc |-> NoExc, builder |-> b]
    ELSE LET r == add_to_slot(b, slot, Head(items))
         IN  IF r.exc # NoExc THEN [exc |-> r.exc, builder |-> b]
             ELSE AddEach(r.builder, slot, Tail(items))

(* distribution.get(slot, []) *)
DistributionGet(dist, slot) == IF DictHas(dist, slot) THEN DictGet(dist, slot) ELSE <<>>

(* The four add loops, in the order breakfast, lunch, dinner, snack. *)
RECURSIVE AddDistribution(_, _, _)
AddDistribution(b, dist, k) ==
    IF k > Len(SlotOrder) THEN [exc |-> NoExc, builder |-> b]
    ELSE LET r == AddEach(b, SlotOrder[k], DistributionGet(dist, SlotOrder[k]))
         IN  IF r.exc # NoExc THEN r
             ELSE AddDistribution(r.builder, dist, k + 1)

(* A handler that catches ValueError alone. *)
CatchesValueErrorOnly(e) == e.type = "ValueError"

(* except Exception: every exception the pipeline raises is an Exception *)
Catches(e) == e.type \in {"ValueError", "KeyError"}

----------------------------------------------------------------------------
(* load_foods.  A source is a header (the set of column names) and rows; a  *)
(* row is what csv.DictReader yields: one cell per column name, where the   *)
(* cells a short line does not reach are None (NoCell).  A numeric text is  *)
(* counted in halves (the text "2.5" is 5), so float() gives halves and     *)
(* int(float()) truncates toward zero to whole units.  Names and the parts  *)
(* of meal_times / tags carry no surrounding blanks.                        *)

NoCell == [kind |-> "None"]
StrCell(s) == [kind |-> "str", text |-> s]        \* a text that is no number
NumCell(h) == [kind |-> "number", halves |-> h]   \* a text float() can parse
ListCell(S) == [kind |-> "list", parts |-> S]     \* "a|b|c"; {} is the blank text

required_fields == <<"name", "calories", "protein", "fat", "carbs">>
AllColumns == <<"name", "calories", "protein", "fat", "carbs", "meal_times", "tags">>

(* float(cell): [exc, value] *)
ParseFloat(cell, field) ==
    CASE cell.kind = "None" -> [exc |-> TypeError(field), value |-> 0]
      [] cell.kind = "number" -> [exc |-> NoExc, value |-> cell.halves]
      [] OTHER -> [exc |-> ValueError("not_a_number", field), value |-> 0]

(* int(x) of a float x counted in halves: truncation toward zero *)
IntOf(h) == IF h >= 0 THEN h \div 2 ELSE -((-h) \div 2)

(* the first required field that is no key of the row, "" if there is none *)
RECURSIVE FirstMissing(_, _)
FirstMissing(fields, header) ==
    IF fields = <<>> THEN ""
    ELSE IF Head(fields) \notin header THEN Head(fields)
    ELSE FirstMissing(Tail(fields), header)

(* "X in row and row[X].strip()" followed by the split: [exc, value] *)
ParseSet(row, header, field, default) ==
    IF field \notin header THEN [exc |-> NoExc, value |-> default]
    ELSE IF row[field].kind = "None" THEN [exc |-> AttributeError(field), value |-> default]
    ELSE IF row[field].parts = {} THEN [exc |-> NoExc, value |-> default]
    ELSE [exc |-> NoExc, value |-> row[field].parts]

(* The body of the inner try for one row: [exc, food]. *)
ParseRow(row, header) ==
    LET missing == FirstMissing(required_fields, header)
        calories == ParseFloat(row.calories, "calories")
        protein == ParseFloat(row.protein, "protein")
        fat == ParseFloat(row.fat, "fat")
        carbs == ParseFloat(row.carbs, "carbs")
        meal_times == ParseSet(row, header, "meal_times", AllMealTimes)
        tags == ParseSet(row, header, "tags", {})
        none == FoodItem("", 0, 0, 0, 0, {}, {})
    IN  IF missing # "" THEN [exc |-> ValueError("missing_field", missing), food |-> none]
        ELSE IF row.name.kind = "None" THEN [exc |-> AttributeError("name"), food |-> none]
        ELSE IF calories.exc # NoExc THEN [exc |-> calories.exc, food |-> none]
        ELSE IF protein.exc # NoExc THEN [exc |-> protein.exc, food |-> none]
        ELSE IF fat.exc # NoExc THEN [exc |-> fat.exc, food |-> none]
        ELSE IF carbs.exc # NoExc THEN [exc |-> carbs.exc, food |-> none]
        ELSE IF meal_times.exc # NoExc THEN [exc |-> meal_times.exc, food |-> none]
        ELSE IF tags.exc # NoExc THEN [exc |-> tags.exc, food |-> none]
        ELSE [exc |-> NoExc,
              food |-> FoodItem(row.name.text, IntOf(calories.value), protein.value,
                                fat.value, carbs.value, meal_times.value, tags.value)]

(* except (ValueError, KeyError): the row is skipped *)
SkipsRow(e) == e.type \in {"ValueError", "KeyError"}

ReturnedFoods(list) == [kind |-> "foods", plan |-> NoPlan, foods |-> list]

----------------------------------------------------------------------------
(* SpecBuilder: a client drives one MealPlanBuilder through its public API  *)
(* (set_slot_limits, add_to_slot and its four wrappers, build) in any order. *)
(* pc is the last call made; result / exc are what that call returned /      *)
(* raised; targets / limits are the arguments of the last build.             *)

BuilderFoods == {Toast, Rice}
LimitArgs == {Cap(0, 1), Cap(2, 2)}

CaloriesAtMost(n) == << Entry("calories", Cap(None, Some(n))) >>
ProteinAtLeast(n) == << Entry("protein", Cap(Some(n), None)) >>
CaloriesTarget(n) == << Entry("calories", Some(n)) >>

BuildTargets == { <<>>, CaloriesTarget(20) }
BuildLimits == { <<>>, CaloriesAtMost(8), ProteinAtLeast(2) }

InitBuilder ==
    /\ Idle
    /\ foods = <<>>
    /\ weights = <<>>
    /\ slot_caps = <<>>
    /\ targets = <<>>
    /\ limits = <<>>
    /\ pc = "builder_new"
    /\ builder = MealPlanBuilder_init
    /\ result = NoResult
    /\ exc = NoExc

B_SetSlotLimits ==
    \E slot \in AllMealTimes, c \in LimitArgs :
        /\ builder' = set_slot_limits(builder, slot, c.min, c.max)
        /\ pc' = "set_slot_limits"
        /\ result' = NoResult
        /\ exc' = NoExc
        /\ targets' = <<>>
        /\ limits' = <<>>
        /\ UNCHANGED <<foods, weights, slot_caps, locals>>

B_AddToSlot ==
    \E slot \in AllMealTimes, item \in BuilderFoods :
        /\ Len(_get_slot_items(builder, slot)) < MaxSlotItems
        /\ LET r == add_to_slot(builder, slot, item)
           IN  /\ builder' = r.builder
               /\ exc' = r.exc
        /\ pc' = "add_to_slot"
        /\ result' = NoResult
        /\ targets' = <<>>
        /\ limits' = <<>>
        /\ UNCHANGED <<foods, weights, slot_caps, locals>>

B_Build ==
    \E tgts \in BuildTargets, lims \in BuildLimits :
        /\ LET r == build(builder, tgts, lims)
           IN  /\ exc' = r.exc
               /\ result' = IF r.exc = NoExc THEN Returned("plan", r.plan) ELSE NoResult
        /\ pc' = "build"
        /\ targets' = tgts
        /\ limits' = lims
        /\ UNCHANGED <<builder, foods, weights, slot_caps, locals>>

NextBuilder == B_SetSlotLimits \/ B_AddToSlot \/ B_Build

SpecBuilder == InitBuilder /\ [][NextBuilder]_vars

(* The item count of a slot of a MealPlan, by the slot's configured name. *)
PlanSlotItems(plan, slot) ==
    CASE slot = "breakfast" -> plan.breakfast
      [] slot = "lunch" -> plan.lunch
      [] slot = "dinner" -> plan.dinner
      [] slot = "snack" -> plan.snacks
      [] OTHER -> <<>>

CountsWithinCaps(plan, caps) ==
    \A i \in DOMAIN caps :
        /\ Len(PlanSlotItems(plan, caps[i].key)) >= caps[i].val.min
        /\ Len(PlanSlotItems(plan, caps[i].key)) <= caps[i].val.max

C1_WitnessRejected ==
    /\ pc = "build"
    /\ builder.slot_caps = DefaultSlotCaps
    /\ builder.breakfast = <<>>
    /\ builder.lunch # <<>>
    /\ exc = ValueError("too_few", "breakfast")

(* C7: on a fresh builder with the default slot limits, add_breakfast of    *)
(* one breakfast-eligible food followed by build() with no targets or       *)
(* limits returns a plan whose breakfast list is exactly that food.         *)
C7_SingleBreakfastBuilds ==
    ( /\ pc = "build"
      /\ builder.slot_caps = DefaultSlotCaps
      /\ Len(builder.breakfast) = 1
      /\ builder.lunch = <<>> /\ builder.dinner = <<>> /\ builder.snacks = <<>>
      /\ targets = <<>> /\ limits = <<>> )
    => /\ result.kind = "plan"
       /\ result.plan.breakfast = builder.breakfast

----------------------------------------------------------------------------
(* SpecTotals: a MealPlan is constructed directly from four lists (as       *)
(* test_nutrition_calculation does) and totals() is called on it.           *)

Jidlo1 == FoodItem("Jidlo 1", 300, 20, 10, 30, AllMealTimes, {})
Jidlo2 == FoodItem("Jidlo 2", 200, 15, 5, 25, AllMealTimes, {})
TotalsFoods == {Jidlo1, Jidlo2}

InitTotals ==
    /\ Idle
    /\ foods = <<>> /\ weights = <<>> /\ slot_caps = <<>>
    /\ targets = <<>> /\ limits = <<>>
    /\ builder = MealPlanBuilder_init
    /\ exc = NoExc
    /\ pc = "constructed"
    /\ \E b \in SeqsUpTo(TotalsFoods, MaxPlanLen), l \in SeqsUpTo(TotalsFoods, MaxPlanLen),
          d \in SeqsUpTo(TotalsFoods, MaxPlanLen), sn \in SeqsUpTo(TotalsFoods, MaxPlanLen) :
            result = Returned("plan", MealPlan(b, l, d, sn))

T_Totals ==
    /\ pc = "constructed"
    /\ pc' = "totals"
    /\ current_totals' = totals(result.plan)
    /\ UNCHANGED <<foods, targets, limits, weights, slot_caps, builder, result, exc,
                   max_items, item_scores, idx, selected, slot_foods, distribution,
                   call, prev_result, csv_file, predicates, heap>>

NextTotals == T_Totals

SpecTotals == InitTotals /\ [][NextTotals]_vars

(* Number of positions of the list xs that hold the item f. *)
Occurrences(xs, f) == Cardinality({i \in DOMAIN xs : xs[i] = f})

PlanOccurrences(plan, f) ==
    Occurrences(plan.breakfast, f) + Occurrences(plan.lunch, f)
        + Occurrences(plan.dinner, f) + Occurrences(plan.snacks, f)

RECURSIVE WeightedSum(_, _, _)
WeightedSum(S, plan, nutrient) ==
    IF S = {} THEN 0
    ELSE LET f == CHOOSE x \in S : TRUE
         IN  PlanOccurrences(plan, f) * get_nutrient_value(f, nutrient)
                + WeightedSum(S \ {f}, plan, nutrient)

(* C9: totals() gives, for each of calories, protein, fat and carbs, the    *)
(* sum of that nutrient over the items of the breakfast, lunch, dinner and  *)
(* snacks lists, every occurrence counted once; breakfast = [(300,20,10,30)],*)
(* lunch = [(200,15,5,25)], dinner = snacks = [] gives 500, 35, 15, 55.     *)
C9_TotalsAreSlotSums ==
    pc = "totals" =>
        LET plan == result.plan
        IN  /\ current_totals.calories = WeightedSum(TotalsFoods, plan, "calories")
            /\ current_totals.protein = WeightedSum(TotalsFoods, plan, "protein")
            /\ current_totals.fat = WeightedSum(TotalsFoods, plan, "fat")
            /\ current_totals.carbs = WeightedSum(TotalsFoods, plan, "carbs")
            /\ (plan = MealPlan(<<Jidlo1>>, <<Jidlo2>>, <<>>, <<>>)
                    => current_totals = [calories |-> 500, protein |-> 35,
                                         fat |-> 15, carbs |-> 55])

C9_Witness ==
    /\ pc = "totals"
    /\ result.plan = MealPlan(<<Jidlo1>>, <<Jidlo2>>, <<>>, <<Jidlo2, Jidlo2>>)
    /\ current_totals.calories = 900

----------------------------------------------------------------------------
(* SpecKnap: MealOptimizer.knapsack_optimize called directly, its selection *)
(* loop taken one iteration at a time.  Target values are in twentieths.    *)

KnapTarget(n) == n * TargetUnit

KnapTargets ==
    { <<>>,
      << Entry("calories", KnapTarget(5)) >>,
      << Entry("calories", KnapTarget(6)), Entry("protein", KnapTarget(3)) >> }

KnapLimits ==
    { <<>>,
      << Entry("calories", Cap(None, Some(8))) >>,
      << Entry("calories", Cap(Some(6), Some(12))) >>,
      << Entry("calories", Cap(Some(8), Some(3))) >>,
      << Entry("protein", Cap(Some(2), None)), Entry("fat", Cap(None, Some(3))) >>,
      << Entry("calories", Cap(None, Some(5))), Entry("fiber", Cap(None, Some(1))) >> }

KnapWeights == { <<>>, << Entry("protein", 2) >> }

InitKnap ==
    /\ foods \in SeqsUpTo(FoodUniverse, MaxKnapFoods)
    /\ targets \in KnapTargets
    /\ limits \in KnapLimits
    /\ weights \in KnapWeights
    /\ max_items \in 0..MaxItems
    /\ pc = "knapsack_optimize"
    /\ item_scores = <<>>
    /\ idx = 0
    /\ selected = <<>>
    /\ current_totals = ZeroTotals
    /\ slot_caps = <<>> /\ slot_foods = <<>> /\ distribution = <<>>
    /\ builder = MealPlanBuilder_init
    /\ result = NoResult /\ exc = NoExc
    /\ call = 0 /\ prev_result = NoResult
    /\ Unused

knapFrame == <<foods, targets, limits, weights, max_items, slot_caps, slot_foods,
               distribution, builder, result, call, prev_result, csv_file, predicates,
               heap>>

(* if not targets or not foods: return [] *)
K_EarlyReturn ==
    /\ pc = "knapsack_optimize"
    /\ (targets = <<>> \/ foods = <<>>)
    /\ pc' = "return"
    /\ UNCHANGED <<item_scores, idx, selected, current_totals, exc, knapFrame>>

(* scoring, the sort, selected = [], current_totals = zeros *)
K_ScoreAndSort ==
    /\ pc = "knapsack_optimize"
    /\ ~(targets = <<>> \/ foods = <<>>)
    /\ item_scores' = ScoreAndSort(foods, targets, weights)
    /\ idx' = 1
    /\ selected' = <<>>
    /\ current_totals' = ZeroTotals
    /\ pc' = "loop"
    /\ UNCHANGED <<exc, knapFrame>>

(* one iteration of "for score, food in item_scores" that does not break *)
K_Iterate ==
    /\ pc = "loop"
    /\ idx <= Len(item_scores)
    /\ Len(selected) < max_items
    /\ LET r == SelectStep(selected, current_totals, item_scores[idx].food, limits)
       IN  /\ exc' = r.exc
           /\ selected' = r.selected
           /\ current_totals' = r.current_totals
           /\ pc' = IF r.exc = NoExc THEN "loop" ELSE "raised"
    /\ idx' = idx + 1
    /\ UNCHANGED <<item_scores, knapFrame>>

(* the loop ends (exhausted, or break at the item cap): return selected *)
K_Return ==
    /\ pc = "loop"
    /\ (idx > Len(item_scores) \/ Len(selected) >= max_items)
    /\ pc' = "return"
    /\ UNCHANGED <<item_scores, idx, selected, current_totals, exc, knapFrame>>

NextKnap == K_EarlyReturn \/ K_ScoreAndSort \/ K_Iterate \/ K_Return

SpecKnap == InitKnap /\ [][NextKnap]_vars

(* Every configured maximum holds of the totals t. *)
WithinMaxima(t, lims) ==
    \A i \in DOMAIN lims : \A m \in lims[i].val.max : TotalsGet(t, lims[i].key) <= m

(* C3: knapsack_optimize never returns more than max_items records, and     *)
(* never a record whose addition put the running total of a bounded         *)
(* nutrient over that nutrient's configured maximum when it was accepted    *)
(* (current_totals changes only on acceptance, to the totals just checked). *)
C3_SelectorRespectsCapAndMaxima ==
    pc \in {"loop", "return"} =>
        /\ Len(selected) <= max_items
        /\ (selected # <<>> => WithinMaxima(current_totals, limits))

(* C14: in knapsack_optimize the candidates are visited in descending score *)
(* order, once each; while fewer than max_items are accepted, a candidate   *)
(* is rejected if and only if adding it would put the running total of some *)
(* bounded nutrient above its configured maximum (being below a minimum     *)
(* never rejects); a rejection does not end the loop.  Stated for the       *)
(* iterations that do not raise.                                            *)
C14_RejectedIffOverMaximum ==
    /\ [](pc = "loop" =>
            \A i \in DOMAIN item_scores : \A j \in DOMAIN item_scores :
                i < j => item_scores[i].score >= item_scores[j].score)
    /\ [][ (pc = "loop" /\ idx <= Len(item_scores) /\ Len(selected) < max_items
                /\ pc' # "raised")
           => LET food == item_scores[idx].food
                  over == ~WithinMaxima(AddFood(current_totals, food), limits)
              IN  /\ idx' = idx + 1
                  /\ pc' = "loop"
                  /\ (over => selected' = selected /\ current_totals' = current_totals)
                  /\ (~over => selected' = Append(selected, food)) ]_vars


----------------------------------------------------------------------------
(* SpecDist: MealOptimizer.distribute_to_slots called directly, its loop    *)
(* over the foods taken one food at a time.                                 *)

FourSlotCaps(b, l, d, sn) ==
    << Entry("breakfast", Cap(0, b)), Entry("lunch", Cap(0, l)),
       Entry("dinner", Cap(0, d)), Entry("snack", Cap(0, sn)) >>

DistCaps ==
    { FourSlotCaps(b, l, d, sn) : b \in 0..MaxCap, l \in 0..MaxCap,
                                  d \in 0..MaxCap, sn \in 0..MaxCap }
    \cup { << Entry("breakfast", Cap(0, MaxCap)), Entry("lunch", Cap(0, 0)) >> }

InitDist ==
    /\ foods \in SeqsUpTo(FoodUniverse, MaxDistFoods)
    /\ slot_caps \in DistCaps
    /\ pc = "distribute_to_slots"
    /\ distribution = <<>>
    /\ idx = 0
    /\ targets = <<>> /\ limits = <<>> /\ weights = <<>>
    /\ max_items = 0 /\ item_scores = <<>> /\ selected = <<>>
    /\ current_totals = ZeroTotals /\ slot_foods = <<>>
    /\ builder = MealPlanBuilder_init
    /\ result = NoResult /\ exc = NoExc
    /\ call = 0 /\ prev_result = NoResult
    /\ Unused

distFrame == <<foods, slot_caps, targets, limits, weights, max_items, item_scores,
               selected, current_totals, slot_foods, builder, result, call, prev_result,
               csv_file, predicates, heap>>

D_Start ==
    /\ pc = "distribute_to_slots"
    /\ distribution' = EmptyDistribution(slot_caps)
    /\ idx' = 1
    /\ pc' = "loop"
    /\ UNCHANGED <<exc, distFrame>>

(* one iteration of "for food in foods" *)
D_Place ==
    /\ pc = "loop"
    /\ idx <= Len(foods)
    /\ LET r == PlaceFood(distribution, foods[idx], slot_caps)
       IN  /\ exc' = r.exc
           /\ distribution' = r.distribution
           /\ pc' = IF r.exc = NoExc THEN "loop" ELSE "raised"
    /\ idx' = idx + 1
    /\ UNCHANGED distFrame

D_Return ==
    /\ pc = "loop"
    /\ idx > Len(foods)
    /\ pc' = "return"
    /\ UNCHANGED <<distribution, idx, exc, distFrame>>

NextDist == D_Start \/ D_Place \/ D_Return

SpecDist == InitDist /\ [][NextDist]_vars

SlotCount(dist, slot) == IF DictHas(dist, slot) THEN Len(DictGet(dist, slot)) ELSE 0

HasFreeCapacity(dist, caps, slot) ==
    DictHas(caps, slot) /\ SlotCount(dist, slot) < DictGet(caps, slot).max

(* C4: while and after distribute_to_slots processes the foods, on the      *)
(* eligibility pass and on the fallback pass alike, no slot holds more      *)
(* items than its configured maximum.                                       *)
C4_NoSlotOverMax ==
    pc \in {"loop", "return", "raised"} =>
        \A i \in DOMAIN slot_caps :
            SlotCount(distribution, slot_caps[i].key) <= slot_caps[i].val.max

(* A food was placed by the fallback pass and its slot is now full. *)
C4_Witness ==
    /\ pc = "return"
    /\ Len(foods) = 2
    /\ foods[2] = Apple
    /\ SlotCount(distribution, "snack") = DictGet(slot_caps, "snack").max
    /\ SlotCount(distribution, "breakfast") = DictGet(slot_caps, "breakfast").max
    /\ Apple \in {DictGet(distribution, "breakfast")[j] :
                    j \in DOMAIN DictGet(distribution, "breakfast")}

(* C5: distribute_to_slots puts a food tagged "meat" in the breakfast slot  *)
(* only if, when that food is processed, none of lunch, dinner and snack    *)
(* has free capacity.                                                       *)
C5_MeatAtBreakfastOnlyWhenFull ==
    [][ ( /\ pc = "loop"
          /\ idx <= Len(foods)
          /\ "meat" \in foods[idx].tags
          /\ SlotCount(distribution', "breakfast") > SlotCount(distribution, "breakfast") )
        => \A slot \in {"lunch", "dinner", "snack"} :
                ~HasFreeCapacity(distribution, slot_caps, slot) ]_vars

(* The number of foods in the four slots of dist. *)
PlacedCount(dist) ==
    SlotCount(dist, "breakfast") + SlotCount(dist, "lunch")
        + SlotCount(dist, "dinner") + SlotCount(dist, "snack")

SumOfMaxima(caps) ==
    DictGet(caps, "breakfast").max + DictGet(caps, "lunch").max
        + DictGet(caps, "dinner").max + DictGet(caps, "snack").max

(* C15: for slot_caps defining the four slots, distribute_to_slots puts     *)
(* each food at the end of exactly one slot's list or drops it, and drops   *)
(* it only when every one of the four slots is at its maximum at that       *)
(* moment; the number of placed foods is min(number of foods, sum of the    *)
(* four maxima).                                                            *)
C15_PlacedOnceOrDroppedWhenFull ==
    /\ [](pc = "return" /\ DictKeys(slot_caps) = AllMealTimes =>
            PlacedCount(distribution) =
                IF Len(foods) <= SumOfMaxima(slot_caps) THEN Len(foods)
                ELSE SumOfMaxima(slot_caps))
    /\ [][ (pc = "loop" /\ idx <= Len(foods) /\ DictKeys(slot_caps) = AllMealTimes)
           => \/ /\ distribution' = distribution
                 /\ \A slot \in AllMealTimes : ~HasFreeCapacity(distribution, slot_caps, slot)
              \/ \E slot \in AllMealTimes :
                    /\ DictGet(distribution', slot)
                            = Append(DictGet(distribution, slot), foods[idx])
                    /\ \A other \in AllMealTimes \ {slot} :
                            DictGet(distribution', other) = DictGet(distribution, other) ]_vars

(* The second of two foods was dropped: the only place was taken. *)
C15_Witness ==
    /\ pc = "return"
    /\ DictKeys(slot_caps) = AllMealTimes
    /\ Len(foods) = 2
    /\ SumOfMaxima(slot_caps) = 1
    /\ PlacedCount(distribution) = 1
    /\ DictGet(distribution, "dinner") = <<foods[1]>>
    /\ "dinner" \notin foods[1].meal_times


----------------------------------------------------------------------------
(* SpecPlan: find_optimal_plan called on a catalog, then called a second    *)
(* time with the same arguments.  The stages of the try block are single    *)
(* steps; a stage that raises hands over to the except clause.              *)

PlanTargets ==
    { <<>>,
      << Entry("calories", None), Entry("protein", None) >>,
      << Entry("calories", Some(20)), Entry("protein", None) >>,
      << Entry("calories", Some(8)), Entry("protein", Some(4)),
         Entry("fat", Some(4)), Entry("carbs", Some(4)) >> }

PlanLimits ==
    { <<>>,
      << Entry("calories", Cap(Some(18), Some(22))) >>,
      << Entry("calories", Cap(None, Some(12))) >>,
      << Entry("protein", Cap(Some(2), None)), Entry("fiber", Cap(None, Some(5))) >> }

PlanWeights == { <<>>, << Entry("protein", 2) >> }

TestSlotCaps ==
    << Entry("breakfast", Cap(1, 2)), Entry("lunch", Cap(1, 2)),
       Entry("dinner", Cap(1, 2)), Entry("snack", Cap(0, 1)) >>

TightSlotCaps ==
    << Entry("breakfast", Cap(1, 1)), Entry("lunch", Cap(1, 1)),
       Entry("dinner", Cap(1, 1)), Entry("snack", Cap(0, 1)) >>

LooseSlotCaps ==
    << Entry("breakfast", Cap(0, 1)), Entry("lunch", Cap(0, 2)),
       Entry("dinner", Cap(0, 1)), Entry("snack", Cap(0, 1)) >>

ThreeSlotCaps ==
    << Entry("breakfast", Cap(1, 2)), Entry("lunch", Cap(1, 3)), Entry("dinner", Cap(1, 3)) >>

PlanSlotCaps == {TestSlotCaps, TightSlotCaps, LooseSlotCaps, ThreeSlotCaps}

(* No builder object exists before the call constructs one. *)
NoBuilder ==
    [breakfast |-> <<>>, lunch |-> <<>>, dinner |-> <<>>, snacks |-> <<>>,
     slot_caps |-> <<>>]

InitPlan ==
    /\ foods \in SeqsUpTo(FoodUniverse, MaxCatalog)
    /\ targets \in PlanTargets
    /\ limits \in PlanLimits
    /\ weights \in PlanWeights
    /\ slot_caps \in PlanSlotCaps
    /\ pc = "find_optimal_plan"
    /\ call = 1
    /\ prev_result = NoResult
    /\ slot_foods = <<>>
    /\ selected = <<>>
    /\ distribution = <<>>
    /\ builder = NoBuilder
    /\ result = NoResult
    /\ exc = NoExc
    /\ max_items = 0 /\ item_scores = <<>> /\ idx = 0 /\ current_totals = ZeroTotals
    /\ csv_file = NoFile /\ predicates = <<>>
    /\ heap = <<foods, targets, limits, weights, slot_caps>>

planArgs == <<foods, targets, limits, weights, slot_caps>>
planFrame == <<max_items, item_scores, idx, current_totals, csv_file, predicates>>

(* slot_foods, daily_targets, all_selected = []: every filter_items call is *)
(* handed the catalog object itself.                                        *)
P_Filter ==
    /\ pc = "find_optimal_plan"
    /\ LET r == SlotFoodsObj(heap, ArgRef.foods, heap[ArgRef.slot_caps], 1, <<>>)
       IN  /\ heap' = r.heap
           /\ slot_foods' = r.slot_foods
    /\ selected' = <<>>
    /\ pc' = "select"
    /\ UNCHANGED <<planArgs, planFrame, distribution, builder, result, exc,
                   call, prev_result>>

(* the per-slot optimisation, or the simple assignment without targets *)
P_Select ==
    /\ pc = "select"
    /\ LET r == SelectAll(slot_foods, targets, limits, weights, slot_caps)
       IN  /\ selected' = r.selected
           /\ exc' = r.exc
           /\ pc' = IF r.exc = NoExc THEN "distribute" ELSE "except"
    /\ UNCHANGED <<planArgs, planFrame, heap, slot_foods, distribution, builder, result,
                   call, prev_result>>

P_Distribute ==
    /\ pc = "distribute"
    /\ LET r == distribute_to_slots(selected, slot_caps)
       IN  /\ distribution' = r.distribution
           /\ exc' = r.exc
           /\ pc' = IF r.exc = NoExc THEN "new_builder" ELSE "except"
    /\ UNCHANGED <<planArgs, planFrame, heap, slot_foods, selected, builder, result,
                   call, prev_result>>

(* builder = MealPlanBuilder() and the set_slot_limits loop *)
P_NewBuilder ==
    /\ pc = "new_builder"
    /\ builder' = NewConfiguredBuilder(slot_caps)
    /\ pc' = "add_foods"
    /\ UNCHANGED <<planArgs, planFrame, heap, slot_foods, selected, distribution, result,
                   exc, call, prev_result>>

(* the four add loops *)
P_AddFoods ==
    /\ pc = "add_foods"
    /\ LET r == AddDistribution(builder, distribution, 1)
       IN  /\ builder' = r.builder
           /\ exc' = r.exc
           /\ pc' = IF r.exc = NoExc THEN "build" ELSE "except"
    /\ UNCHANGED <<planArgs, planFrame, heap, slot_foods, selected, distribution, result,
                   call, prev_result>>

(* return builder.build(targets=targets, limits=limits) *)
P_Build ==
    /\ pc = "build"
    /\ LET r == build(builder, targets, limits)
       IN  /\ exc' = r.exc
           /\ result' = IF r.exc = NoExc THEN Returned("plan", r.plan) ELSE result
           /\ pc' = IF r.exc = NoExc THEN "done" ELSE "except"
    /\ UNCHANGED <<planArgs, planFrame, heap, slot_foods, selected, distribution, builder,
                   call, prev_result>>

(* except Exception as e: print, return None; an exception the clause does *)
(* not catch leaves the call.                                               *)
P_Except ==
    /\ pc = "except"
    /\ result' = IF Catches(exc) THEN Returned("None", NoPlan) ELSE Returned("raised", NoPlan)
    /\ pc' = "done"
    /\ UNCHANGED <<planArgs, planFrame, heap, slot_foods, selected, distribution, builder,
                   exc, call, prev_result>>

(* The caller keeps the first result and calls again with the same arguments. *)
P_CallAgain ==
    /\ pc = "done"
    /\ call = 1
    /\ call' = 2
    /\ prev_result' = result
    /\ result' = NoResult
    /\ exc' = NoExc
    /\ pc' = "find_optimal_plan"
    /\ UNCHANGED <<planArgs, planFrame, heap, slot_foods, selected, distribution, builder>>

NextPlan ==
    \/ P_Filter \/ P_Select \/ P_Distribute \/ P_NewBuilder \/ P_AddFoods
    \/ P_Build \/ P_Except \/ P_CallAgain

SpecPlan == InitPlan /\ [][NextPlan]_vars

(* Every configured bound holds of the totals t. *)
WithinBounds(t, lims) ==
    \A i \in DOMAIN lims :
        /\ \A m \in lims[i].val.min : TotalsGet(t, lims[i].key) >= m
        /\ \A m \in lims[i].val.max : TotalsGet(t, lims[i].key) <= m

(* C2: with a nutrient bound map supplied, build fails when the plan total  *)
(* of a bounded nutrient is below its minimum or above its maximum, so      *)
(* every plan find_optimal_plan returns has, for every nutrient in limits,  *)
(* a total >= the configured minimum and <= the configured maximum (the     *)
(* per-slot selector runs start from zero against the daily limits).        *)
C2_ReturnedPlanWithinBounds ==
    pc = "done" =>
        /\ (result.kind = "plan" => WithinBounds(totals(result.plan), limits))
        /\ ( ( /\ exc.what \in {"", "below_min", "above_max"}
               /\ ~WithinBounds(totals(MealPlan(builder.breakfast, builder.lunch,
                                                builder.dinner, builder.snacks)), limits) )
             => result.kind = "None" /\ exc.what \in {"below_min", "above_max"} )

C2_Witness ==
    /\ pc = "done"
    /\ result.kind = "plan"
    /\ limits = << Entry("calories", Cap(Some(18), Some(22))) >>
    /\ daily_targets(targets) # <<>>
    /\ totals(result.plan).calories = 20

(* C6: find_optimal_plan never propagates a failure: whatever filtering,    *)
(* selection, allocation, add_to_slot or build raises is caught and the     *)
(* call returns None; otherwise it returns the MealPlan build produced.     *)
C6_FailuresBecomeNone ==
    pc = "done" =>
        /\ result.kind \in {"None", "plan"}
        /\ (exc # NoExc <=> result.kind = "None")
        /\ (result.kind = "plan" =>
                result.plan = MealPlan(builder.breakfast, builder.lunch,
                                       builder.dinner, builder.snacks))

C6_Witness ==
    /\ pc = "done"
    /\ exc.type = "KeyError"
    /\ selected # <<>>
    /\ result.kind = "None"

NoDinnerFood(fs) == \A i \in DOMAIN fs : "dinner" \notin fs[i].meal_times

C8_Scenario ==
    /\ DictHas(targets, "calories") /\ DictGet(targets, "calories") = Some(20)
    /\ limits = << Entry("calories", Cap(Some(18), Some(22))) >>
    /\ DictHas(slot_caps, "dinner") /\ DictGet(slot_caps, "dinner").min >= 1
    /\ NoDinnerFood(foods)

(* C8 (as stated): with target calories 2000, calorie bound (1800, 2200),   *)
(* dinner min_count >= 1 and no dinner-eligible food in the catalog,        *)
(* find_optimal_plan produces no plan and the failure is the assembler's    *)
(* min-count violation on the dinner slot.                                  *)
(* Stated for a non-empty catalog and slot_caps that define the four slots. *)
C8_FailsOnDinnerMinCount ==
    (pc = "done" /\ C8_Scenario /\ foods # <<>> /\ DictKeys(slot_caps) = AllMealTimes) =>
        /\ result.kind = "None"
        /\ exc = ValueError("too_few", "dinner")

(* C8 (amended): in that scenario find_optimal_plan produces no plan; the   *)
(* failure is the dinner min-count violation unless an earlier failure      *)
(* ends the call first: a KeyError for a slot slot_caps does not define,    *)
(* add_to_slot refusing a food the fallback pass put in a slot it is not    *)
(* eligible for, or the min-count violation of breakfast or lunch, which    *)
(* build tests before dinner.                                               *)
C8_NoPlanWithoutDinnerFood ==
    (pc = "done" /\ C8_Scenario) =>
        /\ result.kind = "None"
        /\ \/ exc = ValueError("too_few", "dinner")
           \/ exc = ValueError("too_few", "breakfast")
           \/ exc = ValueError("too_few", "lunch")
           \/ exc.type = "ValueError" /\ exc.what = "not_suitable"
           \/ exc.type = "KeyError" /\ exc.name \notin DictKeys(slot_caps)
        /\ ( ( /\ exc.type = "ValueError" /\ exc.what # "not_suitable"
               /\ Len(builder.breakfast) >= DictGet(slot_caps, "breakfast").min
               /\ Len(builder.lunch) >= DictGet(slot_caps, "lunch").min )
             => exc = ValueError("too_few", "dinner") )

C8_Witness ==
    /\ pc = "done"
    /\ C8_Scenario
    /\ foods # <<>>
    /\ builder.breakfast # <<>>
    /\ builder.lunch # <<>>
    /\ result.kind = "None"
    /\ exc = ValueError("too_few", "dinner")

(* C10: two calls of find_optimal_plan with the same catalog, targets,      *)
(* limits, weights and slot_caps give the same result: both None, or plans  *)
(* with the same foods in the same order in every slot.                     *)
C10_SecondCallSameResult ==
    (pc = "done" /\ call = 2) => result = prev_result

C10_Witness ==
    /\ pc = "done"
    /\ call = 2
    /\ prev_result.kind = "plan"
    /\ result.kind = "plan"
    /\ Len(result.plan.lunch) = 2
    /\ daily_targets(targets) # <<>>

(* The first max_count(slot) foods of the catalog fs eligible for slot. *)
FirstEligible(fs, caps, slot) ==
    LET eligible == SelectSeq(fs, LAMBDA f : slot \in f.meal_times)
        n == DictGet(caps, slot).max
    IN  [i \in 1..(IF Len(eligible) < n THEN Len(eligible) ELSE n) |-> eligible[i]]

(* C16: when no nutrient target is set (every target None or absent), the   *)
(* pool find_optimal_plan hands to the allocator is the concatenation, in   *)
(* the order breakfast, lunch, dinner, snack, of the first max_count(slot)  *)
(* catalog foods eligible for that slot, in catalog order.                  *)
C16_NoTargetPoolIsEligiblePrefixes ==
    (pc = "distribute" /\ \A i \in DOMAIN targets : targets[i].val = None) =>
        selected = FirstEligible(foods, slot_caps, "breakfast")
                    \o FirstEligible(foods, slot_caps, "lunch")
                    \o FirstEligible(foods, slot_caps, "dinner")
                    \o FirstEligible(foods, slot_caps, "snack")

(* Two foods eligible for lunch, one place at lunch: only the first is taken. *)
C16_Witness ==
    /\ pc = "distribute"
    /\ targets # <<>>
    /\ \A i \in DOMAIN targets : targets[i].val = None
    /\ Len(foods) = 2
    /\ foods[1] # foods[2]
    /\ \A i \in DOMAIN foods : foods[i].meal_times = {"breakfast", "lunch"}
    /\ DictGet(slot_caps, "lunch").max = 1
    /\ selected = <<foods[1], foods[1]>>


(* Every food of the list xs is eligible for slot. *)
AllEligible(xs, slot) == \A i \in DOMAIN xs : slot \in xs[i].meal_times

(* C19: every plan find_optimal_plan returns has each food in a slot that   *)
(* is in the food's meal_times; whenever the allocator put a food in a slot *)
(* it is not eligible for, add_to_slot raises and the call returns None.    *)
C19_ReturnedPlanRespectsEligibility ==
    pc = "done" =>
        /\ (result.kind = "plan" =>
                /\ AllEligible(result.plan.breakfast, "breakfast")
                /\ AllEligible(result.plan.lunch, "lunch")
                /\ AllEligible(result.plan.dinner, "dinner")
                /\ AllEligible(result.plan.snacks, "snack"))
        /\ ( ( /\ exc.type # "KeyError"
               /\ \E slot \in AllMealTimes :
                    ~AllEligible(DistributionGet(distribution, slot), slot) )
             => /\ result.kind = "None"
                /\ exc.type = "ValueError" /\ exc.what = "not_suitable" )

(* The fallback pass put a snack-only food at breakfast. *)
C19_Witness ==
    /\ pc = "done"
    /\ Apple \in {DistributionGet(distribution, "breakfast")[i] :
                    i \in DOMAIN DistributionGet(distribution, "breakfast")}
    /\ exc = ValueError("not_suitable", "breakfast")
    /\ result.kind = "None"

(* C20: with slot_caps defining the four slots, the pool never holds more   *)
(* foods than the sum of the slot maxima and distribute_to_slots drops none *)
(* of them: the number of foods in the four slots after allocation is the   *)
(* size of the pool.                                                        *)
C20_AllocatorDropsNothing ==
    (pc \in {"distribute", "new_builder"} /\ DictKeys(slot_caps) = AllMealTimes) =>
        /\ Len(selected) <= SumOfMaxima(slot_caps)
        /\ (pc = "new_builder" => PlacedCount(distribution) = Len(selected))

(* The pool fills every place of every slot. *)
C20_Witness ==
    /\ pc = "new_builder"
    /\ DictKeys(slot_caps) = AllMealTimes
    /\ Len(selected) = SumOfMaxima(slot_caps)
    /\ PlacedCount(distribution) = 4
    /\ daily_targets(targets) # <<>>


(* C17: a call of find_optimal_plan leaves its inputs unchanged: the        *)
(* catalog list keeps the same records in the same order, and targets,      *)
(* limits, weights and slot_caps keep the same entries, whether the call    *)
(* returns a plan or None (foods, targets, ... are the contents at call     *)
(* time; heap holds the objects themselves).                                *)
C17_InputsUnchanged ==
    /\ heap[ArgRef.foods] = foods
    /\ heap[ArgRef.targets] = targets
    /\ heap[ArgRef.limits] = limits
    /\ heap[ArgRef.weights] = weights
    /\ heap[ArgRef.slot_caps] = slot_caps
    /\ (pc = "select" => slot_foods = SlotFoods(foods, slot_caps))

(* A plan is returned although filtering rejected a catalog food for a slot. *)
C17_Witness ==
    /\ pc = "done"
    /\ result.kind = "plan"
    /\ Len(foods) = 2
    /\ DictGet(slot_foods, "dinner") # foods
    /\ heap[ArgRef.foods] = foods
    /\ Len(heap) > 5

(* The call returned None and the inputs are as they were. *)
C17_WitnessNone ==
    /\ pc = "done"
    /\ result.kind = "None"
    /\ foods # <<>>
    /\ heap[ArgRef.foods] = foods


----------------------------------------------------------------------------
(* SpecLoad: load_foods called on a source, its row loop taken one row at a *)
(* time.  foods is the local list; result is what the call returns.         *)

Row(name, calories, protein, fat, carbs, meal_times, tags) ==
    [name |-> name, calories |-> calories, protein |-> protein, fat |-> fat,
     carbs |-> carbs, meal_times |-> meal_times, tags |-> tags]

(* A line with only its first k cells: DictReader fills the rest with None. *)
Truncate(row, k) ==
    [f \in DOMAIN row |->
        IF \E i \in 1..k : AllColumns[i] = f THEN row[f] ELSE NoCell]

GoodRow ==
    Row(StrCell("a"), NumCell(201), NumCell(3), NumCell(2), NumCell(5),
        ListCell({}), ListCell({}))
TaggedRow ==
    Row(StrCell("c"), NumCell(10), NumCell(1), NumCell(1), NumCell(1),
        ListCell({"lunch"}), ListCell({"meat"}))
NegativeRow ==
    Row(StrCell("n"), NumCell(-200), NumCell(-3), NumCell(2), NumCell(5),
        ListCell({}), ListCell({}))
BadNumberRow ==
    Row(StrCell("x"), NumCell(10), StrCell("abc"), NumCell(1), NumCell(1),
        ListCell({}), ListCell({}))
ShortRow == Truncate(GoodRow, 3)
NoTagsRow == Truncate(TaggedRow, 6)

RowUniverse == {GoodRow, TaggedRow, NegativeRow, BadNumberRow, ShortRow, NoTagsRow}

(* the header's columns: the first n column names *)
Header(n) == {AllColumns[i] : i \in 1..n}
Headers == {Header(7), Header(5), Header(4)}

Sources ==
    {NoFile} \cup
    {[exists |-> TRUE, header |-> h, rows |-> rs] :
        h \in Headers, rs \in SeqsUpTo(RowUniverse, MaxRows)}

InitLoad ==
    /\ csv_file \in Sources
    /\ pc = "load_foods"
    /\ foods = <<>>
    /\ idx = 0
    /\ result = NoResult
    /\ exc = NoExc
    /\ targets = <<>> /\ limits = <<>> /\ weights = <<>> /\ slot_caps = <<>>
    /\ builder = MealPlanBuilder_init
    /\ max_items = 0 /\ item_scores = <<>> /\ selected = <<>>
    /\ current_totals = ZeroTotals /\ slot_foods = <<>> /\ distribution = <<>>
    /\ call = 0 /\ prev_result = NoResult
    /\ predicates = <<>> /\ heap = NoObjects

loadFrame == <<csv_file, targets, limits, weights, slot_caps, builder, max_items,
               item_scores, selected, current_totals, slot_foods, distribution, call,
               prev_result, predicates, heap>>

(* open() raises FileNotFoundError: return [] *)
L_FileNotFound ==
    /\ pc = "load_foods"
    /\ ~csv_file.exists
    /\ exc' = FileNotFoundError
    /\ result' = ReturnedFoods(<<>>)
    /\ pc' = "return"
    /\ UNCHANGED <<foods, idx, loadFrame>>

(* the file opens and the reader is created *)
L_Open ==
    /\ pc = "load_foods"
    /\ csv_file.exists
    /\ idx' = 1
    /\ pc' = "rows"
    /\ UNCHANGED <<foods, result, exc, loadFrame>>

(* one iteration of "for row_num, row in enumerate(reader, 1)": the row is  *)
(* appended, or skipped by the inner handler, or its exception reaches the  *)
(* outer "except Exception", which returns [].                              *)
L_Row ==
    /\ pc = "rows"
    /\ idx <= Len(csv_file.rows)
    /\ LET r == ParseRow(csv_file.rows[idx], csv_file.header)
       IN  /\ exc' = r.exc
           /\ foods' = IF r.exc = NoExc THEN Append(foods, r.food) ELSE foods
           /\ pc' = IF r.exc = NoExc \/ SkipsRow(r.exc) THEN "rows" ELSE "return"
           /\ result' = IF r.exc = NoExc \/ SkipsRow(r.exc) THEN result
                        ELSE ReturnedFoods(<<>>)
    /\ idx' = idx + 1
    /\ UNCHANGED loadFrame

(* the rows are exhausted: return foods *)
L_Return ==
    /\ pc = "rows"
    /\ idx > Len(csv_file.rows)
    /\ result' = ReturnedFoods(foods)
    /\ pc' = "return"
    /\ UNCHANGED <<foods, idx, exc, loadFrame>>

NextLoad == L_FileNotFound \/ L_Open \/ L_Row \/ L_Return

SpecLoad == InitLoad /\ [][NextLoad]_vars

(* C11: every FoodItem load_foods puts into the catalog has calories >= 0   *)
(* and protein, fat and carbs >= 0; a row with a negative numeric value     *)
(* never becomes a catalog record.                                          *)
C11_CatalogNonNegative ==
    pc = "return" =>
        \A i \in DOMAIN result.foods :
            /\ result.foods[i].calories >= 0
            /\ result.foods[i].protein >= 0
            /\ result.foods[i].fat >= 0
            /\ result.foods[i].carbs >= 0

(* A row is malformed when a required field is missing from it or one of    *)
(* its numeric fields is no number.                                         *)
WellFormed(row, header) ==
    /\ \A i \in DOMAIN required_fields :
            required_fields[i] \in header /\ row[required_fields[i]].kind # "None"
    /\ \A f \in {"calories", "protein", "fat", "carbs"} : row[f].kind = "number"

WellFormedRows(file) == SelectSeq(file.rows, LAMBDA row : WellFormed(row, file.header))

(* C12: load_foods skips each malformed row individually and still returns  *)
(* every well-formed row of the source, in source order (one record per     *)
(* well-formed row, with that row's name); a missing source returns an      *)
(* empty catalog.                                                           *)
C12_MalformedRowsSkippedIndividually ==
    pc = "return" =>
        /\ (~csv_file.exists => result.foods = <<>>)
        /\ (csv_file.exists =>
                LET good == WellFormedRows(csv_file)
                IN  /\ Len(result.foods) = Len(good)
                    /\ \A i \in DOMAIN good : result.foods[i].name = good[i].name.text)

----------------------------------------------------------------------------
(* SpecFilter: filter_items called on a list object with predicates, then   *)
(* called again with the composition of the same predicates.  foods is the  *)
(* content of the caller's list when the first call starts; heap[1] is the  *)
(* list object itself.                                                      *)

PredicateUniverse ==
    { by_meal_time("breakfast"), by_tag("meat"), not_tag("meat"),
      max_nutrient("calories", 5), min_nutrient("protein", 1) }

ReturnedRef(a) == [kind |-> "ref", plan |-> NoPlan, ref |-> a]

InitFilter ==
    /\ foods \in SeqsUpTo(FoodUniverse, MaxFilterItems)
    /\ predicates \in SeqsUpTo(PredicateUniverse, MaxPredicates)
    /\ heap = <<foods>>
    /\ pc = "filter_items"
    /\ result = NoResult /\ prev_result = NoResult
    /\ exc = NoExc
    /\ targets = <<>> /\ limits = <<>> /\ weights = <<>> /\ slot_caps = <<>>
    /\ builder = MealPlanBuilder_init
    /\ max_items = 0 /\ item_scores = <<>> /\ idx = 0 /\ selected = <<>>
    /\ current_totals = ZeroTotals /\ slot_foods = <<>> /\ distribution = <<>>
    /\ call = 0 /\ csv_file = NoFile

filterFrame == <<foods, predicates, exc, targets, limits, weights, slot_caps, builder,
                 max_items, item_scores, idx, selected, current_totals, slot_foods,
                 distribution, call, csv_file>>

(* filter_items(items, p1, ..., pn) *)
F_Filter ==
    /\ pc = "filter_items"
    /\ LET r == filter_items_obj(heap, 1, predicates)
       IN  /\ heap' = r.heap
           /\ result' = ReturnedRef(r.ref)
    /\ pc' = "filtered"
    /\ UNCHANGED <<prev_result, filterFrame>>

(* filter_items(items, compose_predicates(p1, ..., pn)) *)
F_FilterComposed ==
    /\ pc = "filtered"
    /\ LET r == filter_items_obj(heap, 1, <<compose_predicates(predicates)>>)
       IN  /\ heap' = r.heap
           /\ result' = ReturnedRef(r.ref)
    /\ prev_result' = result
    /\ pc' = "filtered_composed"
    /\ UNCHANGED filterFrame

NextFilter == F_Filter \/ F_FilterComposed

SpecFilter == InitFilter /\ [][NextFilter]_vars

(* The positions of xs whose record makes every predicate of ps true. *)
Kept(xs, ps) ==
    {i \in DOMAIN xs : \A j \in DOMAIN ps :
        LET p == ps[j]
        IN  CASE p.kind = "by_meal_time" -> p.name \in xs[i].meal_times
              [] p.kind = "by_tag" -> p.name \in xs[i].tags
              [] p.kind = "not_tag" -> p.name \notin xs[i].tags
              [] p.kind = "max_nutrient" -> get_nutrient_value(xs[i], p.name) <= p.value
              [] p.kind = "min_nutrient" -> get_nutrient_value(xs[i], p.name) >= p.value}

(* ys is xs restricted to the positions K, in the order of xs. *)
IsRestriction(ys, xs, K) ==
    /\ Len(ys) = Cardinality(K)
    /\ \A i \in K : ys[Cardinality({k \in K : k <= i})] = xs[i]

(* C13: filter_items(items, p1..pn) returns a new list that is exactly the  *)
(* subsequence of items, in input order, of the records for which every     *)
(* predicate is true; filtering by compose_predicates(p1..pn) gives the     *)
(* same result; the input sequence is not modified.                         *)
C13_FilterIsOrderedSubsequence ==
    pc \in {"filtered", "filtered_composed"} =>
        /\ result.ref # 1
        /\ heap[1] = foods
        /\ IsRestriction(heap[result.ref], foods, Kept(foods, predicates))
        /\ (pc = "filtered_composed" =>
                /\ prev_result.ref \notin {1, result.ref}
                /\ heap[prev_result.ref] = heap[result.ref])

C13_Witness ==
    /\ pc = "filtered_composed"
    /\ Len(predicates) = 2
    /\ Len(foods) = 3
    /\ Len(heap[result.ref]) = 2
    /\ heap[result.ref][1] = foods[1]
    /\ heap[result.ref][2] = foods[3]
    /\ foods[1] # foods[3]

----------------------------------------------------------------------------
(* SpecAlias: a client drives one MealPlanBuilder object and keeps the last *)
(* plan object build returned.  builder and result.plan hold references     *)
(* into heap.                                                               *)

AliasFoods == {Toast}
AliasSlots == {"lunch", "dinner"}

InitAlias ==
    /\ heap = MealPlanBuilder_obj(NoObjects).heap
    /\ builder = MealPlanBuilder_obj(NoObjects).builder
    /\ pc = "builder_new"
    /\ result = NoResult
    /\ exc = NoExc
    /\ foods = <<>> /\ weights = <<>> /\ slot_caps = <<>>
    /\ targets = <<>> /\ limits = <<>>
    /\ max_items = 0 /\ item_scores = <<>> /\ idx = 0 /\ selected = <<>>
    /\ current_totals = ZeroTotals /\ slot_foods = <<>> /\ distribution = <<>>
    /\ call = 0 /\ prev_result = NoResult
    /\ csv_file = NoFile /\ predicates = <<>>

aliasFrame == <<foods, weights, slot_caps, max_items, item_scores, idx, selected,
                current_totals, slot_foods, distribution, call, prev_result, csv_file,
                predicates>>

A_SetSlotLimits ==
    \E slot \in AliasSlots :
        /\ heap' = set_slot_limits_obj(heap, builder, slot, 0, MaxCap)
        /\ pc' = "set_slot_limits"
        /\ exc' = NoExc
        /\ UNCHANGED <<builder, result, targets, limits, aliasFrame>>

A_AddToSlot ==
    \E slot \in AllMealTimes, item \in AliasFoods :
        /\ Len(_get_slot_items(BuilderValue(heap, builder), slot)) < MaxSlotItems
        /\ LET r == add_to_slot_obj(heap, builder, slot, item)
           IN  /\ heap' = r.heap
               /\ exc' = r.exc
        /\ pc' = "add_to_slot"
        /\ UNCHANGED <<builder, result, targets, limits, aliasFrame>>

(* plan = builder.build(limits=lims): the caller's plan is replaced only    *)
(* when build returns.                                                      *)
A_Build ==
    \E lims \in {<<>>, CaloriesAtMost(5)} :
        /\ Len(heap) < 5 + 4 * MaxBuilds
        /\ LET r == build_obj(heap, builder, <<>>, lims)
           IN  /\ heap' = r.heap
               /\ exc' = r.exc
               /\ result' = IF r.exc = NoExc THEN Returned("plan", r.plan) ELSE result
        /\ pc' = "build"
        /\ targets' = <<>>
        /\ limits' = lims
        /\ UNCHANGED <<builder, aliasFrame>>

NextAlias == A_SetSlotLimits \/ A_AddToSlot \/ A_Build

SpecAlias == InitAlias /\ [][NextAlias]_vars

Refs(r) == {r[f] : f \in DOMAIN r}

(* C18: a MealPlan returned by build is independent of the builder: it      *)
(* shares no list with it, a later add_to_slot or set_slot_limits on the    *)
(* builder does not change the slot lists of the plan already returned,     *)
(* and build does not change the builder's slot contents or limits.         *)
C18_PlanIndependentOfBuilder ==
    /\ [](result.kind = "plan" => Refs(result.plan) \cap Refs(builder) = {})
    /\ [][ (result.kind = "plan" /\ pc' \in {"add_to_slot", "set_slot_limits"})
           => /\ result' = result
              /\ PlanValue(heap', result.plan) = PlanValue(heap, result.plan) ]_vars
    /\ [][ pc' = "build"
           => BuilderValue(heap', builder') = BuilderValue(heap, builder) ]_vars

(* A food was added to the builder's lunch after the plan was returned. *)
C18_Witness ==
    /\ pc = "add_to_slot"
    /\ exc = NoExc
    /\ result.kind = "plan"
    /\ PlanValue(heap, result.plan).lunch = <<>>
    /\ heap[builder.lunch] = <<Toast>>

====
